---- MODULE Spec2Model ----
(***************************************************************************)
(* RE:ZERO interactive fiction engine.                                     *)
(*                                                                         *)
(* The model covers the story aggregate (zero/common/adventure.py), the    *)
(* save-name sanitiser (zero/common/utils.py), the save/load adapter       *)
(* (zero/main/app.py), the menu screen (zero/main/ui/menu.py) and the play *)
(* screen with its send threads (zero/main/ui/play.py).                    *)
(*                                                                         *)
(* A Python string is a sequence of one-character strings; the value None  *)
(* is the one-element sequence <<"None">>, which no string equals.  A text *)
(* typed by the user or produced by the generator is a sequence of tokens. *)
(* Python lists are 0-based, TLA+ sequences 1-based: list[i] is seq[i+1].  *)
(*                                                                         *)
(* The UI thread runs one handler at a time (one action per handler); a    *)
(* send thread runs one statement group at a time (one action per group),  *)
(* so the two appends of _generate are two steps.                          *)
(***************************************************************************)
EXTENDS Integers, Sequences, FiniteSets, TLC

VARIABLES
    screen,             \* ScreenManager.current and the pending transition
    adventure,          \* App.adventure: name, context, memory, actions, results
    mode,               \* PlayScreen.mode
    edit_index,         \* PlayScreen.edit_index
    input_text,         \* PlayScreen.ids.input.text
    input_disabled,     \* PlayScreen.ids.input.disabled
    send_disabled,      \* PlayScreen.ids.button_send.disabled
    thr,                \* the send threads ever started, by order of start
    files,              \* {userdir}/adventures/<save name>.json
    savefiles,          \* MenuScreen.savefiles
    selected_savefile,  \* MenuScreen.selected_savefile
    cfg,                \* App.config: the values the core consumes
    games,              \* the games begun so far (new or loaded from the menu)
    stale,              \* the threads whose story was replaced while they ran
    probe               \* the last application of a story view (view specification)

vars == <<screen, adventure, mode, edit_index, input_text, input_disabled,
          send_disabled, thr, files, savefiles, selected_savefile, cfg, games,
          stale, probe>>

-----------------------------------------------------------------------------
(* Bounds *)

\* send threads started in one behaviour
MaxThreads == 2
\* games begun from the menu in one behaviour
MaxGames == 2
\* turns of a story drawn as input of the story views
MaxLen == 2
\* largest |start|, |end| and memory window drawn as input of the story views
MaxIdx == 5
\* length of the names drawn as input of get_save_name
MaxNameLen == 3

-----------------------------------------------------------------------------
(* Values *)

None == <<"None">>

Min(a, b) == IF a <= b THEN a ELSE b
Max(a, b) == IF a >= b THEN a ELSE b

Tids == 1..MaxThreads

\* the last call recorded for the properties: the operation, its arguments
\* and what it returned or raised
NoProbe ==
    [op |-> "none", start |-> 0, end |-> 0, memory |-> 0, out |-> <<>>,
     ref |-> <<>>, raised |-> "none", timeout |-> 0]

\* the number that marks the i-th turn of a story drawn as input
StoryTurns == [i \in 1..MaxLen |-> IF i = 1 THEN "0" ELSE IF i = 2 THEN "1" ELSE "2"]

\* texts the user types
RawTexts == {<<"x">>}
\* texts the generator returns
GenTexts == {<<"g">>}
\* names, contexts and prompts the new-game form accepts
NewNames == {<<"A", " ", "b">>}
NewContexts == {<<"ctx">>}
NewPrompts == {<<"p">>}

-----------------------------------------------------------------------------
(* zero/common/utils.py *)

SpaceChars == {" ", "\t", "\n"}
NameChars == {"a", "b", "c", "d", "e", "f", "g", "h", "i", "j", "k", "l", "m",
              "n", "o", "p", "q", "r", "s", "t", "u", "v", "w", "x", "y", "z",
              "A", "B", "C", "D", "E", "F", "G", "H", "I", "J", "K", "L", "M",
              "N", "O", "P", "Q", "R", "S", "T", "U", "V", "W", "X", "Y", "Z",
              "0", "1", "2", "3", "4", "5", "6", "7", "8", "9", "_", "-"}

\* str.strip(): drop the leading and the trailing whitespace
RECURSIVE LStrip(_)
LStrip(s) == IF s # <<>> /\ Head(s) \in SpaceChars THEN LStrip(Tail(s)) ELSE s
RECURSIVE RStrip(_)
RStrip(s) ==
    IF s # <<>> /\ s[Len(s)] \in SpaceChars
    THEN RStrip(SubSeq(s, 1, Len(s) - 1)) ELSE s
Strip(s) == RStrip(LStrip(s))

\* re.sub(r'\s+', '_', s): each maximal whitespace run becomes one '_'
RECURSIVE SubSpaces(_)
SubSpaces(s) ==
    IF s = <<>> THEN <<>>
    ELSE IF Head(s) \in SpaceChars
         THEN <<"_">> \o SubSpaces(LStrip(s))
         ELSE <<Head(s)>> \o SubSpaces(Tail(s))

\* a removal that removes nothing
KeepAllChars(s) == s

\* re.sub(r'[^a-zA-Z0-9_-]', '', s)
RECURSIVE KeepNameChars(_)
KeepNameChars(s) ==
    IF s = <<>> THEN <<>>
    ELSE (IF Head(s) \in NameChars THEN <<Head(s)>> ELSE <<>>)
         \o KeepNameChars(Tail(s))

get_save_name(adventure_name) == KeepNameChars(SubSpaces(Strip(adventure_name)))

-----------------------------------------------------------------------------
(* zero/common/adventure.py *)

\* Adventure.__init__ with the default arguments
NewAdventure ==
    [name |-> None, context |-> None, memory |-> <<>>,
     actions |-> <<>>, results |-> <<>>]

\* Adventure.to_dict: the dict of the five keys
to_dict(adv) ==
    [name |-> adv.name, context |-> adv.context, memory |-> adv.memory,
     actions |-> adv.actions, results |-> adv.results]

\* a load that keeps the memory of the receiving story
from_dict_keeps_memory(adv, d) ==
    [name |-> d.name, context |-> d.context, memory |-> adv.memory,
     actions |-> d.actions, results |-> d.results]

\* the keys Adventure.from_dict reads, in the order of its assignments
StoryKeys == <<"name", "context", "memory", "actions", "results">>

\* Adventure.from_dict: d[key] raises KeyError at the first key d lacks
from_dict_raises(d) == \E i \in 1..Len(StoryKeys) : StoryKeys[i] \notin DOMAIN d

\* Adventure.from_dict: the five assignments in order, up to the first key the
\* record lacks
from_dict(adv, d) ==
    LET missing == {i \in 1..Len(StoryKeys) : StoryKeys[i] \notin DOMAIN d}
        assigned(i) == \A j \in missing : i < j
    IN  [name |-> IF assigned(1) THEN d.name ELSE adv.name,
         context |-> IF assigned(2) THEN d.context ELSE adv.context,
         memory |-> IF assigned(3) THEN d.memory ELSE adv.memory,
         actions |-> IF assigned(4) THEN d.actions ELSE adv.actions,
         results |-> IF assigned(5) THEN d.results ELSE adv.results]

\* zip(actions, results): pairs, up to the end of the shorter list
RECURSIVE Zip(_, _)
Zip(a, r) ==
    IF a = <<>> \/ r = <<>> THEN <<>>
    ELSE <<<<Head(a), Head(r)>>>> \o Zip(Tail(a), Tail(r))

\* [s for p in pairs for s in p]
RECURSIVE Flatten(_)
Flatten(pairs) ==
    IF pairs = <<>> THEN <<>> ELSE Head(pairs) \o Flatten(Tail(pairs))

\* a story that pairs the lists the other way round
story_swapped(adv) == Flatten(Zip(adv.results, adv.actions))

\* Adventure.story
story(adv) == Flatten(Zip(adv.actions, adv.results))

\* truthiness of self.context: None and '' are false
Truthy(s) == s # None /\ s # <<>>

\* Adventure.full_story
full_story(adv) ==
    (IF Truthy(adv.context) THEN <<adv.context>> ELSE <<>>) \o story(adv)

\* a slice index as list[a:b] reads it: negative counts from the end, then
\* clamped into 0..len
SliceIndex(i, n) == IF i < 0 THEN Max(i + n, 0) ELSE Min(i, n)

\* list[start:end]
PySlice(s, start, end) ==
    LET lo == SliceIndex(start, Len(s))
        hi == SliceIndex(end, Len(s))
    IN  IF lo < hi THEN SubSeq(s, lo + 1, hi) ELSE <<>>

\* Adventure.get_ai_story with both arguments given
get_ai_story(adv, start, end) ==
    (IF Truthy(adv.context) THEN <<adv.context>> ELSE <<>>)
    \o <<adv.memory>>
    \o PySlice(story(adv), start, end)

-----------------------------------------------------------------------------
(* zero/main/app.py *)

\* App.build_config, lines 48-66: the defaults
DefaultConfig ==
    [memory |-> 20, timeout |-> 20, autosave |-> TRUE,
     input_filters |-> <<"fi">>, output_filters |-> <<"fo">>]

\* App.build_config, line 47: the defaults, or what config.ini sets
Configs ==
    { DefaultConfig,
      [memory |-> 0, timeout |-> 0, autosave |-> FALSE,
       input_filters |-> <<>>, output_filters |-> <<>>] }

\* a loaded filter module: a function from text to text (here: it tags the text)
FilterFn(f, text) == <<f>> \o text

\* the save names of the names a game can carry
SaveNames == {get_save_name(n) : n \in NewNames}
NoFile == [name |-> None]

\* App.save_adventure, given a name that is a string: the record replaces the
\* file of the same save name
save_adventure(fs, adv) ==
    [fs EXCEPT ![get_save_name(adv.name)] = to_dict(adv)]

-----------------------------------------------------------------------------
(* zero/main/ui/play.py: filters and prompt *)

\* PlayScreen.filter_input / filter_output: the chain in registration order
RECURSIVE ApplyFilters(_, _)
ApplyFilters(fs, text) ==
    IF fs = <<>> THEN text ELSE ApplyFilters(Tail(fs), FilterFn(Head(fs), text))

filter_input(text) == ApplyFilters(cfg.input_filters, text)
filter_output(text) == ApplyFilters(cfg.output_filters, text)

\* ' '.join(list)
RECURSIVE JoinSp(_)
JoinSp(l) ==
    IF l = <<>> THEN <<>>
    ELSE IF Len(l) = 1 THEN l[1]
    ELSE l[1] \o <<" ">> \o JoinSp(Tail(l))

\* a window whose size is not limited to `end`
generate_window_unclipped(adv, memory_cfg, end) ==
    LET story_len == Len(story(adv))
        memory == IF memory_cfg <= 0 THEN story_len ELSE memory_cfg
    IN  get_ai_story(adv, end - memory, end)

\* PlayScreen._generate, lines 193-197, with `end` given: the window handed
\* to get_ai_story
generate_window(adv, memory_cfg, end) ==
    LET story_len == Len(story(adv))
        memory == IF memory_cfg <= 0 THEN story_len ELSE Min(memory_cfg, end)
    IN  get_ai_story(adv, end - memory, end)

\* PlayScreen._generate, lines 193-198, with end=None: the generator's prompt
generate_prompt(adv, memory_cfg, text) ==
    JoinSp(generate_window(adv, memory_cfg, Len(story(adv))))
    \o (IF text # <<>> THEN <<" ">> \o text ELSE <<>>)

\* a bound that is the configured value as it is
generate_timeout_as_configured(timeout_cfg) == timeout_cfg

\* PlayScreen._generate, line 200: the bound handed to func_timeout
generate_timeout(timeout_cfg) == IF timeout_cfg <= 0 THEN 604800 ELSE timeout_cfg

-----------------------------------------------------------------------------
(* zero/main/ui/play.py: selection tags *)

LowerChars == {"a", "b", "c", "d", "e", "f", "g", "h", "i", "j", "k", "l", "m",
               "n", "o", "p", "q", "r", "s", "t", "u", "v", "w", "x", "y", "z"}
DigitChars == {"0", "1", "2", "3", "4", "5", "6", "7", "8", "9"}
DigitVal(c) ==
    CASE c = "0" -> 0 [] c = "1" -> 1 [] c = "2" -> 2 [] c = "3" -> 3
      [] c = "4" -> 4 [] c = "5" -> 5 [] c = "6" -> 6 [] c = "7" -> 7
      [] c = "8" -> 8 [] c = "9" -> 9

\* the greedy [0-9]+ at the head of s
RECURSIVE DigitRun(_)
DigitRun(s) ==
    IF s # <<>> /\ Head(s) \in DigitChars
    THEN <<Head(s)>> \o DigitRun(Tail(s)) ELSE <<>>

\* int(digits)
RECURSIVE ParseInt(_)
ParseInt(d) ==
    IF d = <<>> THEN 0
    ELSE 10 * ParseInt(SubSeq(d, 1, Len(d) - 1)) + DigitVal(d[Len(d)])

\* re.match(r'([a-z])([0-9]+)?', ref): whether it matches, group(1), group(2)
ref_matches(ref) == ref # <<>> /\ Head(ref) \in LowerChars
ref_group1(ref) == Head(ref)
ref_group2(ref) == DigitRun(Tail(ref))

\* the tags a press on the output text can carry
Refs == {<<"a", "0">>}

-----------------------------------------------------------------------------
(* The send threads *)

\* a thread: its position, its locals, and what the properties remember of
\* it: the mode when on_send started it (at_mode) and the index at which its
\* action was appended (slot)
NoThread ==
    [pc |-> "none", text |-> <<>>, prompt |-> <<>>, result |-> <<>>,
     branch |-> "none", caught |-> "none", raised |-> "none",
     at_mode |-> "", slot |-> 0]

Started == {t \in Tids : thr[t].pc # "none"}
\* the threads that have not yet ended
Running ==
    {t \in Tids : thr[t].pc \in {"start", "try", "generating", "append_r", "sent", "save"}}
\* PlayScreen.on_send: a new thread on _on_send_thread(text)
on_send(text) ==
    LET t == Cardinality(Started) + 1
    IN  /\ t \in Tids
        /\ thr' = [thr EXCEPT ![t] = [NoThread EXCEPT !.pc = "start", !.text = text,
                                                      !.at_mode = mode]]

\* the locals of a thread are kept while a later statement reads them
Locals(pc, r) ==
    [r EXCEPT !.text = IF pc \in {"try", "generating", "append_r"} THEN @ ELSE <<>>,
              !.prompt = IF pc = "generating" THEN @ ELSE <<>>,
              !.result = IF pc = "append_r" THEN @ ELSE <<>>,
              !.at_mode = IF pc \in {"start", "try"} THEN @ ELSE "",
              !.slot = IF pc = "append_r" THEN @ ELSE 0]

Step(t, pc, upd) == thr' = [thr EXCEPT ![t] = Locals(pc, [upd EXCEPT !.pc = pc])]

\* _on_send_thread, lines 135-137: the input filter, then the controls go off
SendBegin(t) ==
    /\ thr[t].pc = "start"
    /\ Step(t, "try", [thr[t] EXCEPT !.text = filter_input(thr[t].text)])
    /\ input_disabled' = TRUE
    /\ send_disabled' = TRUE
    /\ UNCHANGED <<screen, adventure, mode, edit_index, input_text, files,
                   savefiles, selected_savefile, cfg, stale, games, probe>>

\* _on_send_thread, line 135: an input filter raises; nothing catches it
SendFilterRaises(t) ==
    /\ thr[t].pc = "start"
    /\ cfg.input_filters # <<>>
    /\ Step(t, "raised", [thr[t] EXCEPT !.raised = "Exception"])
    /\ UNCHANGED <<screen, adventure, mode, edit_index, input_text,
                   input_disabled, send_disabled, files, savefiles,
                   selected_savefile, cfg, stale, games, probe>>

\* _try_send, lines 159-160, and _generate, lines 193-198: in generate mode the
\* prompt is built from the story as it is now
TryGenerate(t) ==
    /\ thr[t].pc = "try"
    /\ mode = ""
    /\ Step(t, "generating",
            [thr[t] EXCEPT !.branch = "generate",
                           !.prompt = generate_prompt(adventure, cfg.memory, thr[t].text)])
    /\ UNCHANGED <<screen, adventure, mode, edit_index, input_text,
                   input_disabled, send_disabled, files, savefiles,
                   selected_savefile, cfg, stale, games, probe>>

\* _try_send, lines 161-168: whether the write of this mode raises IndexError
edit_raises(adv, m, idx) ==
    \/ m = "a" /\ idx >= Len(adv.actions)
    \/ m = "r" /\ idx >= Len(adv.results)

\* a write that appends to the list instead of replacing the entry
edit_write_appends(adv, m, idx, text) ==
    CASE m = "c" -> [adv EXCEPT !.context = text]
      [] m = "a" -> [adv EXCEPT !.actions = Append(@, text)]
      [] m = "r" -> [adv EXCEPT !.results = Append(@, text)]
      [] m = "m" -> [adv EXCEPT !.memory = text]
      [] OTHER -> adv

\* a write that passes the text through the output filters first
edit_write_output_filtered(adv, m, idx, text) ==
    CASE m = "c" -> [adv EXCEPT !.context = filter_output(text)]
      [] m = "a" -> [adv EXCEPT !.actions[idx + 1] = filter_output(text)]
      [] m = "r" -> [adv EXCEPT !.results[idx + 1] = filter_output(text)]
      [] m = "m" -> [adv EXCEPT !.memory = filter_output(text)]
      [] OTHER -> adv

\* _try_send, lines 161-168: the story after the write of this mode (a mode
\* that is none of c, a, r, m writes nothing)
edit_write(adv, m, idx, text) ==
    CASE m = "c" -> [adv EXCEPT !.context = text]
      [] m = "a" -> [adv EXCEPT !.actions[idx + 1] = text]
      [] m = "r" -> [adv EXCEPT !.results[idx + 1] = text]
      [] m = "m" -> [adv EXCEPT !.memory = text]
      [] OTHER -> adv

\* _try_send, lines 169-182: an except clause handles the exception (popup and
\* log), its `as result` unbinds result when the clause ends, and `return result`
\* raises UnboundLocalError out of _try_send and out of the thread
\* a failure that leaves the submitted text in actions
Fail_keeps_action(t, branch, kind) ==
    /\ Step(t, "raised", [thr[t] EXCEPT !.branch = branch, !.caught = kind,
                                        !.raised = "UnboundLocalError"])
    /\ adventure' = [adventure EXCEPT !.actions = Append(@, thr[t].text)]
    /\ UNCHANGED <<screen, mode, edit_index, input_text, input_disabled,
                   send_disabled, files, savefiles, selected_savefile, cfg, stale,
                   games, probe>>

Fail(t, branch, kind) ==
    /\ Step(t, "raised", [thr[t] EXCEPT !.branch = branch, !.caught = kind,
                                        !.raised = "UnboundLocalError"])
    /\ UNCHANGED <<screen, adventure, mode, edit_index, input_text,
                   input_disabled, send_disabled, files, savefiles,
                   selected_savefile, cfg, stale, games, probe>>

\* _try_send, lines 161-168: in an edit mode the text is written to the story
TryEdit(t) ==
    /\ thr[t].pc = "try"
    /\ mode # ""
    /\ ~edit_raises(adventure, mode, edit_index)
    /\ adventure' = edit_write(adventure, mode, edit_index, thr[t].text)
    /\ Step(t, "sent", [thr[t] EXCEPT !.branch = mode])
    /\ UNCHANGED <<screen, mode, edit_index, input_text, input_disabled,
                   send_disabled, files, savefiles, selected_savefile, cfg, stale, games, probe>>

\* _try_send, lines 163-166 and 175-182: the index is out of range
TryEditRaises(t) ==
    /\ thr[t].pc = "try"
    /\ mode # ""
    /\ edit_raises(adventure, mode, edit_index)
    /\ Fail(t, mode, "Exception")

\* _generate, lines 201-216: the generator returns within the bound, the
\* output filters return, and the action is appended
GenReturns(t) ==
    /\ thr[t].pc = "generating"
    /\ \E raw \in GenTexts :
          Step(t, "append_r", [thr[t] EXCEPT !.result = filter_output(raw),
                                             !.slot = Len(adventure.actions)])
    /\ adventure' = [adventure EXCEPT !.actions = Append(@, thr[t].text)]
    /\ UNCHANGED <<screen, mode, edit_index, input_text, input_disabled,
                   send_disabled, files, savefiles, selected_savefile, cfg, stale, games, probe>>

\* _generate, line 201, and _try_send, lines 169-174: func_timeout raises
\* FunctionTimedOut
GenTimesOut(t) ==
    /\ thr[t].pc = "generating"
    /\ Fail(t, "generate", "FunctionTimedOut")

\* _generate, line 201, and _try_send, lines 175-181: the generator raises
GenRaises(t) ==
    /\ thr[t].pc = "generating"
    /\ Fail(t, "generate", "Exception")

\* _generate, line 214, and _try_send, lines 175-181: an output filter raises
OutputFilterRaises(t) ==
    /\ thr[t].pc = "generating"
    /\ cfg.output_filters # <<>>
    /\ Fail(t, "generate", "Exception")

\* _generate, lines 217-218
AppendResult(t) ==
    /\ thr[t].pc = "append_r"
    /\ adventure' = [adventure EXCEPT !.results = Append(@, thr[t].result)]
    /\ Step(t, "sent", thr[t])
    /\ UNCHANGED <<screen, mode, edit_index, input_text, input_disabled,
                   send_disabled, files, savefiles, selected_savefile, cfg, stale, games, probe>>

\* _on_send_thread, lines 139-143, with error None: the mode is reset and
\* on_update clears the input
PostSend(t) ==
    /\ thr[t].pc = "sent"
    /\ mode' = ""
    /\ input_text' = <<>>
    /\ Step(t, "save", thr[t])
    /\ UNCHANGED <<screen, adventure, edit_index, input_disabled, send_disabled,
                   files, savefiles, selected_savefile, cfg, stale, games, probe>>

\* _on_send_thread, lines 144-147: the autosave, then the controls go on
Finish(t) ==
    /\ thr[t].pc = "save"
    /\ ~(cfg.autosave /\ adventure.name = None)
    /\ files' = IF cfg.autosave THEN save_adventure(files, adventure) ELSE files
    /\ input_disabled' = FALSE
    /\ send_disabled' = FALSE
    /\ Step(t, "done", thr[t])
    /\ UNCHANGED <<screen, adventure, mode, edit_index, input_text, savefiles,
                   selected_savefile, cfg, stale, games, probe>>

\* try_autosave, line 115, and get_save_name, line 18: the story was replaced
\* by Adventure(), None has no strip, and AttributeError ends the thread
AutosaveRaises(t) ==
    /\ thr[t].pc = "save"
    /\ cfg.autosave /\ adventure.name = None
    /\ Step(t, "raised", [thr[t] EXCEPT !.raised = "AttributeError"])
    /\ UNCHANGED <<screen, adventure, mode, edit_index, input_text,
                   input_disabled, send_disabled, files, savefiles,
                   selected_savefile, cfg, stale, games, probe>>

-----------------------------------------------------------------------------
(* zero/main/ui/menu.py *)

\* MenuScreen.init_saves, lines 218-222: every file is read again and stored
\* under the name it holds; an entry no file holds any more stays
init_saves(cache, fs) ==
    [n \in NewNames |->
        IF \E k \in SaveNames : fs[k] # NoFile /\ fs[k].name = n
        THEN fs[CHOOSE k \in SaveNames : fs[k] # NoFile /\ fs[k].name = n]
        ELSE cache[n]]

\* str.strip() of a form field is non-empty
NonBlank(s) == Strip(s) # <<>>

\* MenuScreen.on_enter, after the transition to the menu: a fresh Adventure
MenuOnEnter ==
    /\ screen = "to_menu"
    /\ screen' = "menu"
    /\ adventure' = NewAdventure
    /\ savefiles' = init_saves(savefiles, files)
    /\ selected_savefile' = None
    /\ stale' = stale \cup Running
    /\ UNCHANGED <<mode, edit_index, input_text, input_disabled, send_disabled,
                   thr, files, cfg, games, probe>>

\* MenuScreen.on_game_selected
on_game_selected(game) ==
    /\ screen = "menu"
    /\ savefiles[game] # NoFile
    /\ selected_savefile' = game
    /\ UNCHANGED <<screen, adventure, mode, edit_index, input_text,
                   input_disabled, send_disabled, thr, files, savefiles, cfg, stale, games, probe>>

\* MenuScreen.on_start_new; button_start_new is enabled when the three fields
\* are non-blank
on_start_new(name, context, prompt) ==
    /\ screen = "menu"
    /\ games < MaxGames
    /\ games' = games + 1
    /\ NonBlank(name) /\ NonBlank(context) /\ NonBlank(prompt)
    /\ adventure' = [adventure EXCEPT !.name = name, !.context = context,
                                      !.actions = Append(@, prompt)]
    /\ screen' = "to_play"
    /\ UNCHANGED <<mode, edit_index, input_text, input_disabled, send_disabled,
                   thr, files, savefiles, selected_savefile, cfg, stale, probe>>

\* MenuScreen.on_start_load; button_start_load is enabled when a save is selected
on_start_load ==
    /\ screen = "menu"
    /\ games < MaxGames
    /\ games' = games + 1
    /\ selected_savefile # None
    /\ adventure' = from_dict(adventure, savefiles[selected_savefile])
    /\ screen' = "to_play"
    /\ UNCHANGED <<mode, edit_index, input_text, input_disabled, send_disabled,
                   thr, files, savefiles, selected_savefile, cfg, stale, probe>>

-----------------------------------------------------------------------------
(* zero/main/ui/play.py: the handlers of the UI thread *)

\* PlayScreen.on_enter, after the transition to the play screen: the prompt of
\* a new game is taken out of actions and sent
PlayOnEnterNew ==
    /\ screen = "to_play"
    /\ Len(adventure.actions) = 1 /\ Len(adventure.results) = 0
    /\ screen' = "play"
    /\ adventure' = [adventure EXCEPT !.actions = Tail(@)]
    /\ on_send(adventure.actions[1])
    /\ UNCHANGED <<mode, edit_index, input_text, input_disabled, send_disabled,
                   files, savefiles, selected_savefile, cfg, stale, games, probe>>

\* PlayScreen.on_enter, lines 82-83: any other story is only displayed
PlayOnEnterUpdate ==
    /\ screen = "to_play"
    /\ ~(Len(adventure.actions) = 1 /\ Len(adventure.results) = 0)
    /\ screen' = "play"
    /\ UNCHANGED <<adventure, mode, edit_index, input_text, input_disabled,
                   send_disabled, thr, files, savefiles, selected_savefile, cfg, stale, games, probe>>

\* the user types into the input box, which is enabled
Type(text) ==
    /\ screen = "play"
    /\ ~input_disabled
    /\ input_text' = text
    /\ UNCHANGED <<screen, adventure, mode, edit_index, input_disabled,
                   send_disabled, thr, files, savefiles, selected_savefile, cfg, stale, games, probe>>

\* button_send, which is enabled, is pressed: PlayScreen.on_send()
PressSend ==
    /\ screen = "play"
    /\ ~send_disabled
    /\ on_send(input_text)
    /\ UNCHANGED <<screen, adventure, mode, edit_index, input_text,
                   input_disabled, send_disabled, files, savefiles,
                   selected_savefile, cfg, stale, games, probe>>

\* an index that is the number of the tag itself
entry_index_undivided(ref, cur) ==
    IF ref_group2(ref) # <<>> THEN ParseInt(ref_group2(ref)) ELSE cur

\* PlayScreen.on_entry_selected, lines 233-235: the index a matched tag selects;
\* without digits the index of the last selection stays
entry_index(ref, cur) ==
    IF ref_group2(ref) # <<>> THEN ParseInt(ref_group2(ref)) \div 2 ELSE cur

\* PlayScreen.on_entry_selected: the exception the handler raises, if any.
\* Without a match, match.group raises AttributeError at line 233; an index
\* past the end of the list raises IndexError at line 239 or 241
select_raises(adv, ref, cur) ==
    IF ~ref_matches(ref) THEN "AttributeError"
    ELSE IF \/ ref_group1(ref) = "a" /\ entry_index(ref, cur) >= Len(adv.actions)
            \/ ref_group1(ref) = "r" /\ entry_index(ref, cur) >= Len(adv.results)
         THEN "IndexError"
         ELSE "none"

\* PlayScreen.on_entry_selected, lines 232-242: an AttributeError at line 233
\* comes before any assignment; an IndexError at line 239 or 241 leaves what
\* lines 233-235 assigned
on_entry_selected(ref) ==
    /\ screen = "play"
    /\ IF ref_matches(ref)
       THEN LET m == ref_group1(ref)
                idx == entry_index(ref, edit_index)
            IN  /\ mode' = m
                /\ edit_index' = idx
                /\ input_text' =
                      CASE m = "c" -> adventure.context
                        [] m = "a" /\ idx < Len(adventure.actions) -> adventure.actions[idx + 1]
                        [] m = "r" /\ idx < Len(adventure.results) -> adventure.results[idx + 1]
                        [] OTHER -> input_text
       ELSE UNCHANGED <<mode, edit_index, input_text>>
    /\ probe' = [NoProbe EXCEPT !.op = "select", !.ref = ref,
                                !.raised = select_raises(adventure, ref, edit_index)]
    /\ UNCHANGED <<screen, adventure, input_disabled, send_disabled, thr, files,
                   savefiles, selected_savefile, cfg, stale, games>>

\* MenuPopup.on_save
on_save ==
    /\ screen = "play"
    /\ adventure.name # None
    /\ files' = save_adventure(files, adventure)
    /\ UNCHANGED <<screen, adventure, mode, edit_index, input_text,
                   input_disabled, send_disabled, thr, savefiles,
                   selected_savefile, cfg, stale, games, probe>>

\* App.load_adventure with the file present
load_adventure(adv, fs) == from_dict(adv, fs[get_save_name(adv.name)])

\* App.load_adventure: open() raises without the file, from_dict raises on a
\* record that lacks a key
load_raises(adv, fs) ==
    IF fs[get_save_name(adv.name)] = NoFile THEN "FileNotFoundError"
    ELSE IF from_dict_raises(fs[get_save_name(adv.name)]) THEN "KeyError"
    ELSE "none"

\* MenuPopup.on_load; without the file, open() raises and nothing changes
on_load ==
    /\ screen = "play"
    /\ adventure.name # None
    /\ adventure' = IF files[get_save_name(adventure.name)] = NoFile
                    THEN adventure
                    ELSE load_adventure(adventure, files)
    /\ probe' = [NoProbe EXCEPT !.op = "load",
                                !.raised = load_raises(adventure, files)]
    /\ stale' = IF files[get_save_name(adventure.name)] = NoFile
                THEN stale
                ELSE stale \cup Running
    /\ UNCHANGED <<screen, mode, edit_index, input_text, input_disabled,
                   send_disabled, thr, files, savefiles, selected_savefile, cfg, games>>

\* MenuPopup.on_quit
on_quit ==
    /\ screen = "play"
    /\ screen' = "to_menu"
    /\ UNCHANGED <<adventure, mode, edit_index, input_text, input_disabled,
                   send_disabled, thr, files, savefiles, selected_savefile, cfg, stale, games, probe>>

-----------------------------------------------------------------------------
(* The session *)

\* App.__init__, App.build and the first MenuScreen.on_enter, on an empty
\* adventures directory
Init ==
    /\ screen = "menu"
    /\ adventure = NewAdventure
    /\ mode = ""
    /\ edit_index = 0
    /\ input_text = <<>>
    /\ input_disabled = FALSE
    /\ send_disabled = FALSE
    /\ thr = [t \in Tids |-> NoThread]
    /\ files = [k \in SaveNames |-> NoFile]
    /\ savefiles = [n \in NewNames |-> NoFile]
    /\ selected_savefile = None
    /\ cfg \in Configs
    /\ games = 0
    /\ stale = {}
    /\ probe = NoProbe

ThreadNext(t) ==
    \/ SendBegin(t)
    \/ SendFilterRaises(t)
    \/ TryGenerate(t)
    \/ TryEdit(t)
    \/ TryEditRaises(t)
    \/ GenReturns(t)
    \/ GenTimesOut(t)
    \/ GenRaises(t)
    \/ OutputFilterRaises(t)
    \/ AppendResult(t)
    \/ PostSend(t)
    \/ Finish(t)
    \/ AutosaveRaises(t)

UINext ==
    \/ MenuOnEnter
    \/ \E game \in NewNames : on_game_selected(game)
    \/ \E name \in NewNames, context \in NewContexts, prompt \in NewPrompts :
          on_start_new(name, context, prompt)
    \/ on_start_load
    \/ PlayOnEnterNew
    \/ PlayOnEnterUpdate
    \/ \E text \in RawTexts : Type(text)
    \/ PressSend
    \/ \E ref \in Refs : on_entry_selected(ref)
    \/ on_load
    \/ on_quit

Next == UINext \/ \E t \in Tids : ThreadNext(t)

Spec == Init /\ [][Next]_vars

\* a started thread runs on until it returns or an exception ends it
FairSpec == Spec /\ \A t \in Tids : WF_vars(ThreadNext(t))

-----------------------------------------------------------------------------
(* The story views, each applied once to a story drawn from a bounded set *)

ViewTexts == {<<"x">>, <<"y">>}
ViewSeqs == UNION {[1..n -> ViewTexts] : n \in 0..MaxLen}
ViewStories ==
    [name : NewNames, context : {None, <<>>, <<"ctx">>}, memory : {<<>>, <<"mem">>},
     actions : ViewSeqs, results : ViewSeqs]
ViewIdx == (0 - MaxIdx)..MaxIdx

ViewInit ==
    /\ adventure \in ViewStories
    /\ screen = "play"
    /\ mode = ""
    /\ edit_index = 0
    /\ input_text = <<>>
    /\ input_disabled = FALSE
    /\ send_disabled = FALSE
    /\ thr = [t \in Tids |-> NoThread]
    /\ files = [k \in SaveNames |-> NoFile]
    /\ savefiles = [n \in NewNames |-> NoFile]
    /\ selected_savefile = None
    /\ cfg = DefaultConfig
    /\ games = 0
    /\ stale = {}
    /\ probe = NoProbe

\* one view is applied in a behaviour
ViewFrame ==
    /\ probe.op = "none"
    /\ UNCHANGED <<screen, adventure, mode, edit_index, input_text, input_disabled,
                send_disabled, thr, files, savefiles, selected_savefile, cfg, stale, games>>

\* Adventure.story is read
ReadStory ==
    /\ probe.op = "none"
    /\ probe' = [NoProbe EXCEPT !.op = "story", !.out = story(adventure)]
    /\ ViewFrame

\* Adventure.get_ai_story(start, end) is called
CallGetAiStory(start, end) ==
    /\ probe.op = "none"
    /\ probe' = [NoProbe EXCEPT !.op = "get_ai_story", !.start = start, !.end = end,
                                !.out = get_ai_story(adventure, start, end)]
    /\ ViewFrame

\* PlayScreen._generate(text) builds its window under a configured memory
CallGenerate(memory_cfg) ==
    /\ probe.op = "none"
    /\ probe' = [NoProbe EXCEPT !.op = "generate", !.memory = memory_cfg,
                                !.end = Len(story(adventure)),
                                !.out = generate_window(adventure, memory_cfg,
                                                        Len(story(adventure)))]
    /\ ViewFrame

\* PlayScreen._generate(text, end=end) builds its window under a configured memory
CallGenerateEnd(memory_cfg, end) ==
    /\ probe.op = "none"
    /\ probe' = [NoProbe EXCEPT !.op = "generate_end", !.memory = memory_cfg,
                                !.end = end,
                                !.out = generate_window(adventure, memory_cfg, end)]
    /\ ViewFrame

\* PlayScreen._generate, lines 199-201, under a configured timeout: the bound
\* func_timeout is called with
CallFuncTimeout(timeout_cfg) ==
    /\ probe.op = "none"
    /\ probe' = [NoProbe EXCEPT !.op = "func_timeout", !.memory = timeout_cfg,
                                !.timeout = generate_timeout(timeout_cfg)]
    /\ ViewFrame

ViewNext ==
    \/ \E timeout_cfg \in ViewIdx : CallFuncTimeout(timeout_cfg)
    \/ ReadStory
    \/ \E start \in ViewIdx, end \in ViewIdx : CallGetAiStory(start, end)
    \/ \E memory_cfg \in ViewIdx : CallGenerate(memory_cfg)
    \/ \E memory_cfg \in ViewIdx, end \in 0..MaxIdx : CallGenerateEnd(memory_cfg, end)

ViewSpec == ViewInit /\ [][ViewNext]_vars

-----------------------------------------------------------------------------
(* The play screen on a story that holds turns: selections, edits, turns    *)

\* the story on the play screen when the session is picked up: MaxLen turns
EditStories ==
    { [name |-> <<"A", " ", "b">>, context |-> <<"ctx">>, memory |-> <<"mem">>,
       actions |-> [i \in 1..MaxLen |-> <<"a", StoryTurns[i]>>],
       results |-> [i \in 1..MaxLen |-> <<"r", StoryTurns[i]>>]] }

\* the tags a press can hand to on_entry_selected
EditRefs ==
    { <<"c">>, <<"m">>, <<"a", "2">>, <<"a", "4">>, <<"r", "1">>, <<"r", "5">>,
      <<"a">>, <<"x">>, <<>>, <<"4">> }

\* the first turn of a story
first_turn(adv) ==
    [adv EXCEPT !.actions = SubSeq(@, 1, 1), !.results = SubSeq(@, 1, 1)]

\* the play screen shows a story whose last turn a send thread has recorded;
\* with autosave its record is on disk, without it the disk holds the story
\* or the story as it was saved after its first turn
EditInit ==
    /\ adventure \in EditStories
    /\ cfg \in Configs
    /\ files \in { save_adventure([k \in SaveNames |-> NoFile], adventure),
                   save_adventure([k \in SaveNames |-> NoFile], first_turn(adventure)) }
    /\ cfg.autosave => files[get_save_name(adventure.name)] = to_dict(adventure)
    /\ screen = "play"
    /\ mode = ""
    /\ edit_index = 0
    /\ input_text = <<>>
    /\ input_disabled = FALSE
    /\ send_disabled = FALSE
    /\ thr = [t \in Tids |->
                IF t < MaxThreads
                THEN [NoThread EXCEPT !.pc = "done", !.branch = "generate"]
                ELSE NoThread]
    /\ savefiles = [n \in NewNames |-> NoFile]
    /\ selected_savefile = None
    /\ games = 1
    /\ stale = {}
    /\ probe = NoProbe

\* the steps of a send thread whose story keeps its name
EditThreadNext(t) ==
    \/ SendBegin(t)
    \/ SendFilterRaises(t)
    \/ TryGenerate(t)
    \/ TryEdit(t)
    \/ TryEditRaises(t)
    \/ GenReturns(t)
    \/ GenTimesOut(t)
    \/ GenRaises(t)
    \/ OutputFilterRaises(t)
    \/ AppendResult(t)
    \/ PostSend(t)
    \/ Finish(t)

EditNext ==
    \/ \E ref \in EditRefs : on_entry_selected(ref)
    \/ \E text \in RawTexts : Type(text)
    \/ PressSend
    \/ \E t \in Tids : EditThreadNext(t)

EditSpec == EditInit /\ [][EditNext]_vars

\* the same screen with the menu popup: manual save and load between the
\* selections and the submit
SaveRefs == { <<"m">>, <<"a", "2">> }

SaveNext ==
    \/ on_save
    \/ on_load
    \/ \E ref \in SaveRefs : on_entry_selected(ref)
    \/ \E text \in RawTexts : Type(text)
    \/ PressSend
    \/ \E t \in Tids : EditThreadNext(t)

SaveSpec == EditInit /\ [][SaveNext]_vars

-----------------------------------------------------------------------------
(* get_save_name, applied to a name drawn from a bounded set and then to its *)
(* own result                                                                *)

NameAlphabet == {"a", "Z", " ", "\t", "!", "_", "-"}
ExampleName == <<"M", "y", " ", "G", "a", "m", "e", "!", "!", " ", "2">>
NameInputs ==
    UNION {[1..n -> NameAlphabet] : n \in 0..MaxNameLen} \cup {ExampleName}

NameInit ==
    /\ \E n \in NameInputs : adventure = [NewAdventure EXCEPT !.name = n]
    /\ screen = "menu"
    /\ mode = ""
    /\ edit_index = 0
    /\ input_text = <<>>
    /\ input_disabled = FALSE
    /\ send_disabled = FALSE
    /\ thr = [t \in Tids |-> NoThread]
    /\ files = [k \in SaveNames |-> NoFile]
    /\ savefiles = [n \in NewNames |-> NoFile]
    /\ selected_savefile = None
    /\ cfg = DefaultConfig
    /\ games = 0
    /\ stale = {}
    /\ probe = NoProbe

\* get_save_name(self.adventure.name)
CallGetSaveName ==
    /\ probe.op = "none"
    /\ probe' = [NoProbe EXCEPT !.op = "get_save_name",
                                !.out = get_save_name(adventure.name)]
    /\ UNCHANGED <<screen, adventure, mode, edit_index, input_text, input_disabled,
                   send_disabled, thr, files, savefiles, selected_savefile, cfg, stale, games>>

\* get_save_name of the save name just computed
CallGetSaveNameAgain ==
    /\ probe.op = "get_save_name"
    /\ probe' = [NoProbe EXCEPT !.op = "get_save_name_again", !.ref = probe.out,
                                !.out = get_save_name(probe.out)]
    /\ UNCHANGED <<screen, adventure, mode, edit_index, input_text, input_disabled,
                   send_disabled, thr, files, savefiles, selected_savefile, cfg, stale, games>>

NameNext == CallGetSaveName \/ CallGetSaveNameAgain

NameSpec == NameInit /\ [][NameNext]_vars

-----------------------------------------------------------------------------
(* Load on the play screen, from an adventures directory that holds no      *)
(* record, a record of the five keys, or a record that lacks keys           *)

\* the stories on the play screen
LoadStories ==
    { [name |-> <<"A", " ", "b">>, context |-> c, memory |-> <<"mem">>,
       actions |-> [i \in 1..n |-> <<"a", StoryTurns[i]>>],
       results |-> [i \in 1..n |-> <<"r", StoryTurns[i]>>]] :
         c \in {<<>>, <<"ctx">>}, n \in 0..MaxLen }

\* the record another session left under the same save name
DiskRecord ==
    [name |-> <<"A", " ", "b">>, context |-> <<"dctx">>, memory |-> <<"dmem">>,
     actions |-> << <<"da0">> >>, results |-> << <<"dr0">> >>]

\* d without the keys in ks
WithoutKeys(d, ks) == [k \in (DOMAIN d) \ ks |-> d[k]]

\* the records the file can hold: all five keys, or fewer
DiskRecords ==
    {WithoutKeys(DiskRecord, ks) :
        ks \in SUBSET {"name", "context", "memory", "actions", "results"}}

LoadInit ==
    /\ adventure \in LoadStories
    /\ cfg \in Configs
    /\ files \in [SaveNames -> DiskRecords \cup {NoFile}]
    /\ screen = "play"
    /\ mode = ""
    /\ edit_index = 0
    /\ input_text = <<>>
    /\ input_disabled = FALSE
    /\ send_disabled = FALSE
    /\ thr = [t \in Tids |-> NoThread]
    /\ savefiles = [n \in NewNames |-> NoFile]
    /\ selected_savefile = None
    /\ games = 1
    /\ stale = {}
    /\ probe = NoProbe

LoadNext == on_load \/ on_save

LoadSpec == LoadInit /\ [][LoadNext]_vars

-----------------------------------------------------------------------------
(* Properties of the story views (ViewSpec) *)

\* the interleaving of a story, entry by entry
Interleaved(adv) ==
    [i \in 1..(2 * Min(Len(adv.actions), Len(adv.results))) |->
        IF i % 2 = 1 THEN adv.actions[(i + 1) \div 2] ELSE adv.results[i \div 2]]

\* what precedes the story entries in a prompt view
ViewPrefix(adv) ==
    (IF adv.context # None /\ adv.context # <<>> THEN <<adv.context>> ELSE <<>>)
    \o <<adv.memory>>

\* the last k entries of s
LastEntries(s, k) == [i \in 1..k |-> s[Len(s) - k + i]]

\* i clamped into 0..n
Clamp(i, n) == IF i < 0 THEN 0 ELSE IF i > n THEN n ELSE i

\* s[lo:hi] with both ends clamped into 0..Len(s); empty when lo > hi
ClampedSlice(s, lo, hi) ==
    LET a == Clamp(lo, Len(s))
        b == Clamp(hi, Len(s))
    IN  [i \in 1..(IF a < b THEN b - a ELSE 0) |-> s[a + i]]

\* C8: for a story of n complete turns, the window _generate builds is context
\* (if non-empty), memory, and then all 2n entries when the configured memory is
\* <= 0, the last min(k, 2n) entries when it is k > 0.
C8_WindowOfCompleteStory ==
    (probe.op = "generate" /\ Len(adventure.actions) = Len(adventure.results)) =>
        LET n2 == 2 * Len(adventure.actions)
            k == IF probe.memory <= 0 THEN n2 ELSE Min(probe.memory, n2)
        IN  /\ probe.end = n2
            /\ probe.out = ViewPrefix(adventure) \o LastEntries(Interleaved(adventure), k)

\* C8 witness: a story of two complete turns with a context, windowed to its
\* last three entries.
C8_Witness ==
    /\ probe.op = "generate"
    /\ probe.memory = 3
    /\ Len(adventure.actions) = 2 /\ Len(adventure.results) = 2
    /\ adventure.actions[1] # adventure.actions[2]
    /\ adventure.context = <<"ctx">>
    /\ Len(probe.out) = 5

\* C9: for every start and end, get_ai_story returns context (if non-empty),
\* memory and story[start:end] with start and end clamped into [0, len(story)]
\* (no entries when start > end); and _generate with an explicit end and a
\* non-positive memory returns the story up to that end.
C9_WindowClamps ==
    /\ probe.op = "get_ai_story" =>
          probe.out = ViewPrefix(adventure)
                      \o ClampedSlice(Interleaved(adventure), probe.start, probe.end)
    /\ (probe.op = "generate_end" /\ probe.memory <= 0) =>
          probe.out = ViewPrefix(adventure)
                      \o ClampedSlice(Interleaved(adventure), 0, probe.end)

\* C10: the interleaved story has length 2*min(len(actions), len(results)),
\* entry 2i is actions[i] and entry 2i+1 is results[i].
C10_StoryInterleaves ==
    probe.op = "story" =>
        LET n == Min(Len(adventure.actions), Len(adventure.results))
        IN  /\ Len(probe.out) = 2 * n
            /\ \A i \in 0..(n - 1) :
                  /\ probe.out[2 * i + 1] = adventure.actions[i + 1]
                  /\ probe.out[2 * i + 2] = adventure.results[i + 1]

\* C10 witness: the story of two actions and one result is read.
C10_Witness ==
    /\ probe.op = "story"
    /\ Len(adventure.actions) = 2 /\ Len(adventure.results) = 1
    /\ adventure.actions[1] # adventure.results[1]
    /\ Len(probe.out) = 2

-----------------------------------------------------------------------------
(* Properties of the session (Spec) *)

\* a submit whose thread has neither finished its send nor ended
Unresolved(t) == thr[t].pc \in {"start", "try", "generating", "append_r"}

\* a generation between its prompt and the end of its append
Generating(t) == thr[t].pc \in {"generating", "append_r"}

\* C1: len(actions) = len(results), or len(actions) = len(results) + 1 while a
\* submitted turn (or the prompt of a new game) has not resolved; nothing else.
C1_LengthSkew ==
    LET d == Len(adventure.actions) - Len(adventure.results)
    IN  /\ d \in {0, 1}
        /\ d = 1 => (screen = "to_play" \/ \E t \in Tids : Unresolved(t))

\* C2: a submit in generate mode that fails (timeout, generator error, output
\* filter error) leaves the story as it was: none of its steps, from the start
\* of its thread to the failure, changes the story.
C2_FailureLeavesStory ==
    [][\A t \in Tids :
          ( /\ thr'[t] # thr[t]
            /\ thr'[t].pc \in {"try", "generating", "raised"}
            /\ thr'[t].branch \in {"none", "generate"} )
          => adventure' = adventure]_vars

\* C2 witness: on a story that holds a turn, a generation has timed out.
C2_Witness ==
    \E t \in Tids :
        /\ thr[t].pc = "raised"
        /\ thr[t].branch = "generate"
        /\ thr[t].caught = "FunctionTimedOut"
        /\ Len(adventure.actions) = 1 /\ Len(adventure.results) = 1

\* C3: at most one generation is in flight: a submit issued while another has
\* not resolved starts no generation.
C3_BusyGuard == Cardinality({t \in Tids : Generating(t)}) <= 1

\* C4: a turn is appended only when every submit issued before it has
\* resolved.
C4_SequentialTurns ==
    \A t \in Tids :
        thr[t].pc = "append_r" => \A s \in Tids : s < t => ~Unresolved(s)

\* C5: when a generation completes its append on a story of n results, the
\* story has n+1 turns, actions[n] is the filtered input and results[n] the
\* filtered output, and nothing else changed.
C5_AppendTurn ==
    [][\A t \in Tids :
          (thr[t].pc = "append_r" /\ thr'[t].pc = "sent") =>
              LET n == Len(adventure.results)
              IN  /\ Len(adventure'.actions) = n + 1
                  /\ Len(adventure'.results) = n + 1
                  /\ adventure'.actions[n + 1] = thr[t].text
                  /\ adventure'.results[n + 1] = thr[t].result
                  /\ SubSeq(adventure'.actions, 1, n) = SubSeq(adventure.actions, 1, n)
                  /\ SubSeq(adventure'.results, 1, n) = adventure.results
                  /\ adventure'.context = adventure.context
                  /\ adventure'.memory = adventure.memory
                  /\ adventure'.name = adventure.name]_vars

\* C6: an edit write is never applied while a generation is between its
\* prompt and the end of its append.
C6_NoInterleavedEdit ==
    [][\A t \in Tids :
          (thr[t].pc = "try" /\ thr'[t].pc = "sent") =>
              \A s \in Tids : s # t => ~Generating(s)]_vars

\* C7: whenever a prompt window is computed, len(actions) = len(results).
C7_PromptOnCompleteStory ==
    [][\A t \in Tids :
          (thr[t].pc = "try" /\ thr'[t].pc = "generating") =>
              Len(adventure.actions) = Len(adventure.results)]_vars

-----------------------------------------------------------------------------
(* Properties of selections and edits (EditSpec) *)

\* the modes that write a field
EditModes == {"c", "a", "r", "m"}

\* the digits of a tag are all of its tail
AllDigits(d) == d # <<>> /\ \A i \in 1..Len(d) : d[i] \in DigitChars

\* the decimal number a digit string denotes
RECURSIVE TagNumber(_)
TagNumber(d) ==
    IF d = <<>> THEN 0 ELSE 10 * TagNumber(SubSeq(d, 1, Len(d) - 1)) + DigitVal(d[Len(d)])

\* a well-formed tag of kind action or result: the letter and a number
IndexedTag(ref) == ref # <<>> /\ Head(ref) \in {"a", "r"} /\ AllDigits(Tail(ref))

\* a well-formed tag of kind context
ContextTag(ref) == ref = <<"c">>

\* a malformed tag: empty, an unknown kind letter (a digit included), or an
\* action/result tag without a number
MalformedTag(ref) ==
    \/ ref = <<>>
    \/ ref # <<>> /\ Head(ref) \notin EditModes
    \/ ref # <<>> /\ Head(ref) \in {"a", "r"} /\ ~AllDigits(Tail(ref))

\* the value of the field a kind and an index name
FieldValue(adv, kind, idx) ==
    CASE kind = "c" -> adv.context
      [] kind = "m" -> adv.memory
      [] kind = "a" -> adv.actions[idx + 1]
      [] kind = "r" -> adv.results[idx + 1]

\* new differs from old in at most the field that kind and idx name
OnlyFieldWritten(old, new, kind, idx) ==
    CASE kind = "c" -> new = [old EXCEPT !.context = new.context]
      [] kind = "m" -> new = [old EXCEPT !.memory = new.memory]
      [] kind = "a" ->
            /\ idx < Len(old.actions)
            /\ new = [old EXCEPT !.actions[idx + 1] = new.actions[idx + 1]]
      [] kind = "r" ->
            /\ idx < Len(old.results)
            /\ new = [old EXCEPT !.results[idx + 1] = new.results[idx + 1]]

\* C11: selecting a well-formed action or result tag of number k sets the kind
\* and the index k \div 2 ("a4" -> (action, 2), "r5" -> (result, 2)); a context
\* tag sets the kind and no index; and the edit that follows the selection
\* writes the entry at that index.
C11_SelectionResolves ==
    [][ /\ \A ref \in EditRefs :
             (IndexedTag(ref) /\ probe'.ref = ref /\ on_entry_selected(ref)) =>
                 /\ mode' = Head(ref)
                 /\ edit_index' = TagNumber(Tail(ref)) \div 2
        /\ \A ref \in EditRefs :
             (ContextTag(ref) /\ probe'.ref = ref /\ on_entry_selected(ref)) =>
                 /\ mode' = "c"
                 /\ edit_index' = edit_index
        /\ \A t \in Tids :
             ( /\ thr[t].pc = "try" /\ thr'[t].pc = "sent"
               /\ probe.op = "select" /\ IndexedTag(probe.ref)
               /\ mode = Head(probe.ref)
               /\ TryEdit(t) ) =>
                 LET k == TagNumber(Tail(probe.ref)) \div 2
                 IN  /\ OnlyFieldWritten(adventure, adventure', mode, k)
                     /\ FieldValue(adventure', mode, k) = thr[t].text ]_vars

\* C11 witness: after the selection of "a2" the edit has written actions[1] and
\* left actions[0].
C11_Witness ==
    \E t \in Tids :
        /\ thr[t].pc = "sent" /\ thr[t].branch = "a"
        /\ probe.op = "select" /\ probe.ref = <<"a", "2">>
        /\ edit_index = 1
        /\ adventure.actions[1] = <<"a", "0">>
        /\ adventure.actions[2] # <<"a", "1">>

\* C12: selecting a malformed tag fails and changes neither the story, nor the
\* mode, nor the edit index.
C12_MalformedRejected ==
    [][\A ref \in EditRefs :
          (MalformedTag(ref) /\ probe'.ref = ref /\ on_entry_selected(ref)) =>
              /\ probe'.raised # "none"
              /\ UNCHANGED <<adventure, mode, edit_index>>]_vars

\* C13: the write of an edit-mode submit changes exactly the field of its mode
\* (context, memory, actions[index] or results[index]), the lengths stay, and
\* no other step of that submit changes the story.
C13_EditWritesOneField ==
    [][\A t \in Tids :
          (thr'[t] # thr[t] /\ thr'[t].branch \in EditModes) =>
              IF thr[t].pc = "try" /\ thr'[t].pc = "sent"
              THEN /\ OnlyFieldWritten(adventure, adventure', mode, edit_index)
                   /\ Len(adventure'.actions) = Len(adventure.actions)
                   /\ Len(adventure'.results) = Len(adventure.results)
              ELSE adventure' = adventure]_vars

\* C13 witness: an edit in result mode has replaced results[0] of a story of
\* two turns and nothing else.
C13_Witness ==
    \E t \in Tids :
        /\ thr[t].pc = "done" /\ thr[t].branch = "r"
        /\ Len(adventure.results) = MaxLen
        /\ adventure.results[1] # <<"r", "0">>
        /\ adventure.results[2] = <<"r", "1">>
        /\ SubSeq(adventure.actions, 1, 2) = << <<"a", "0">>, <<"a", "1">> >>
        /\ adventure.context = <<"ctx">> /\ adventure.memory = <<"mem">>

\* C14: selecting an action/result tag whose index is not below the length of
\* the list, and submitting an edit whose index is not below it (after a load
\* shortened the story), fails and changes neither the story, nor the mode,
\* nor the edit index.
C14_OutOfRangeRejected ==
    [][ /\ \A ref \in EditRefs :
             ( /\ IndexedTag(ref)
               /\ TagNumber(Tail(ref)) \div 2 >=
                      Len(IF Head(ref) = "a" THEN adventure.actions ELSE adventure.results)
               /\ probe'.ref = ref
               /\ on_entry_selected(ref) ) =>
                 /\ probe'.raised = "IndexError"
                 /\ UNCHANGED <<adventure, mode, edit_index>>
        /\ \A t \in Tids :
             (thr[t].pc = "try" /\ thr'[t].pc = "raised" /\ TryEditRaises(t)) =>
                 /\ thr'[t].caught # "none"
                 /\ UNCHANGED <<adventure, mode, edit_index>> ]_vars

\* C15: a selection that succeeds loads the current value of the selected
\* field (context, actions[index], results[index] or memory) into the input.
C15_SelectionLoadsField ==
    [][\A ref \in EditRefs :
          ( /\ ref # <<>>
            /\ probe'.ref = ref
            /\ probe'.raised = "none"
            /\ mode' \in EditModes
            /\ on_entry_selected(ref) ) =>
              input_text' = FieldValue(adventure, mode', edit_index')]_vars

\* C16: a submit that runs in an edit mode never enters the generator call,
\* builds no prompt and holds no generator result; the text it writes is the
\* submitted text after the input filter chain, without the output filters.
C16_EditSkipsGenerator ==
    [][\A t \in Tids :
          /\ (thr[t].pc = "start" /\ thr'[t].pc = "try") =>
                 thr'[t].text = ApplyFilters(cfg.input_filters, thr[t].text)
          /\ (thr'[t] # thr[t] /\ thr'[t].branch \in EditModes) =>
                 /\ thr'[t].pc \notin {"generating", "append_r"}
                 /\ thr'[t].prompt = <<>>
                 /\ thr'[t].result = <<>>
          /\ (thr[t].pc = "try" /\ thr'[t].pc = "sent" /\ mode \in EditModes /\ TryEdit(t)) =>
                 FieldValue(adventure', mode, edit_index) = thr[t].text]_vars

\* C16 witness: under the default filters an edit in memory mode has written
\* the typed text with the mark of the input filter, and its thread has ended.
C16_Witness ==
    \E t \in Tids :
        /\ thr[t].pc = "done" /\ thr[t].branch = "m"
        /\ cfg = DefaultConfig
        /\ adventure.memory = <<"fi", "x">>

-----------------------------------------------------------------------------
(* Properties of a submit's outcome (Spec, FairSpec) *)

\* C17: a generation failure is caught and the submit returns it: a timeout
\* as the timeout kind, any other error as the error kind; nothing is raised
\* out of the submit.
C17_FailureReturned ==
    \A t \in Tids :
        (thr[t].branch = "generate" /\ thr[t].caught # "none") =>
            thr[t].raised = "none"

\* C18: every submitted turn that reaches the generator call, given that the
\* call returns, raises or times out, eventually ends with the input and the
\* send button enabled.
C18_TurnReturnsToIdle ==
    \A t \in Tids :
        (thr[t].pc = "generating") ~>
            (thr[t].pc = "done" /\ ~input_disabled /\ ~send_disabled)

-----------------------------------------------------------------------------
(* Properties of get_save_name (NameSpec) *)

UpperChars == {"A", "B", "C", "D", "E", "F", "G", "H", "I", "J", "K", "L", "M",
               "N", "O", "P", "Q", "R", "S", "T", "U", "V", "W", "X", "Y", "Z"}
SaveNameChars == LowerChars \cup UpperChars \cup DigitChars \cup {"_", "-"}
Whitespace == {" ", "\t", "\n"}

\* the maximal runs of non-whitespace characters of s, in order
RECURSIVE WordsOf(_, _)
WordsOf(s, word) ==
    IF s = <<>> THEN (IF word = <<>> THEN <<>> ELSE <<word>>)
    ELSE IF Head(s) \in Whitespace
         THEN (IF word = <<>> THEN <<>> ELSE <<word>>) \o WordsOf(Tail(s), <<>>)
         ELSE WordsOf(Tail(s), Append(word, Head(s)))

\* the words joined by one '_'
RECURSIVE JoinUnderscore(_)
JoinUnderscore(ws) ==
    IF ws = <<>> THEN <<>>
    ELSE IF Len(ws) = 1 THEN ws[1]
    ELSE ws[1] \o <<"_">> \o JoinUnderscore(Tail(ws))

\* s without the characters outside SaveNameChars
RECURSIVE OnlySaveNameChars(_)
OnlySaveNameChars(s) ==
    IF s = <<>> THEN <<>>
    ELSE IF Head(s) \in SaveNameChars
         THEN <<Head(s)>> \o OnlySaveNameChars(Tail(s))
         ELSE OnlySaveNameChars(Tail(s))

\* C19: the save name holds only alphanumerics, '_' and '-'; it is the words
\* of the name joined by one '_' each, with every other character then removed
\* ("My Game!! 2" gives "My_Game_2"); and the save name of a save name is
\* itself.
C19_SaveNameIdempotent ==
    /\ probe.op = "get_save_name" =>
          /\ \A i \in 1..Len(probe.out) : probe.out[i] \in SaveNameChars
          /\ probe.out = OnlySaveNameChars(JoinUnderscore(WordsOf(adventure.name, <<>>)))
          /\ adventure.name = ExampleName =>
                probe.out = <<"M", "y", "_", "G", "a", "m", "e", "_", "2">>
    /\ probe.op = "get_save_name_again" => probe.out = probe.ref

\* C19 witness: the save name of "My Game!! 2" has been computed again from
\* "My_Game_2".
C19_Witness ==
    /\ probe.op = "get_save_name_again"
    /\ adventure.name = ExampleName
    /\ probe.ref = <<"M", "y", "_", "G", "a", "m", "e", "_", "2">>
    /\ probe.out = probe.ref

-----------------------------------------------------------------------------
(* Properties of save and load (SaveSpec) *)

\* the five fields of a story
StoryFields(adv) == <<adv.name, adv.context, adv.memory, adv.actions, adv.results>>

\* C20: a save writes the five fields of the story under the save name of its
\* name and leaves the story; a load replaces all five fields of the receiving
\* story by those of the record under that save name, whatever it held. So
\* loading what was saved gives the saved story back.
C20_SaveLoadRoundTrip ==
    [][ /\ (files' # files /\ on_save) =>
             /\ StoryFields(files'[get_save_name(adventure.name)]) = StoryFields(adventure)
             /\ adventure' = adventure
        /\ (probe'.op = "load" /\ files[get_save_name(adventure.name)] # NoFile /\ on_load) =>
             StoryFields(adventure') = StoryFields(files[get_save_name(adventure.name)]) ]_vars

\* C20 witness: the record of a story of two turns is on disk; an edit in
\* memory mode wrote the memory of the story and its thread ended without an
\* autosave; the load that followed has brought the saved memory back.
C20_Witness ==
    /\ probe.op = "load"
    /\ ~cfg.autosave
    /\ \E t \in Tids : thr[t].pc = "done" /\ thr[t].branch = "m"
    /\ adventure.memory = <<"mem">>
    /\ Len(adventure.actions) = MaxLen
    /\ StoryFields(adventure) = StoryFields(files[get_save_name(adventure.name)])

-----------------------------------------------------------------------------
(* Properties of the generator's bound (ViewSpec) *)

\* one week, in seconds
OneWeek == 604800

\* C22: the bound func_timeout is called with is the configured timeout when
\* that is > 0 and one week (604800 s) when it is <= 0; there is always a
\* bound, and it is positive.
C22_TimeoutBound ==
    probe.op = "func_timeout" =>
        /\ probe.memory > 0 => probe.timeout = probe.memory
        /\ probe.memory <= 0 => probe.timeout = OneWeek
        /\ probe.timeout > 0

\* C22 witness: under a configured timeout of -1 the call is bounded by one
\* week.
C22_Witness ==
    /\ probe.op = "func_timeout"
    /\ probe.memory = -1
    /\ probe.timeout = 604800

-----------------------------------------------------------------------------
(* Properties of a load that fails (LoadSpec) *)

\* the record under the save name of the story
RecordOf(adv, fs) == fs[get_save_name(adv.name)]

\* C23: a load of a record that is absent or lacks one of the five keys fails
\* and leaves the five fields of the story as they were.
C23_LoadAllOrNothing ==
    [][ ( /\ \/ RecordOf(adventure, files) = NoFile
             \/ \E k \in {"name", "context", "memory", "actions", "results"} :
                   k \notin DOMAIN RecordOf(adventure, files)
          /\ on_load ) =>
            /\ probe'.raised # "none"
            /\ adventure' = adventure ]_vars

-----------------------------------------------------------------------------
(* Properties of overlapping submits and replaced stories (Spec) *)

\* C24: a generation stores its result at the index of its own action: when
\* it appends the result, results has as many entries as actions had when it
\* appended its action, and that action is still at that index.
C24_TurnPairing ==
    [][\A t \in Tids :
          (thr[t].pc = "append_r" /\ thr'[t].pc = "sent") =>
              /\ Len(adventure.results) = thr[t].slot
              /\ Len(adventure.actions) > thr[t].slot
              /\ adventure.actions[thr[t].slot + 1] = thr[t].text]_vars

\* C25: a generation whose story was replaced while it ran (quit to the menu,
\* or a load) appends neither its action nor its result; and a new game enters
\* the play screen with its own prompt as its only action and no result.
C25_NoAppendToReplacingStory ==
    [][ /\ \A t \in Tids :
             (thr[t].pc \in {"generating", "append_r"} /\ thr'[t].pc \in {"append_r", "sent"}) =>
                 t \notin stale
        /\ \A name \in NewNames, context \in NewContexts, prompt \in NewPrompts :
             on_start_new(name, context, prompt) =>
                 /\ adventure'.actions = <<prompt>>
                 /\ adventure'.results = <<>> ]_vars

\* C26: a submit runs in the mode the screen was in when it was submitted; and
\* when an edit-mode submit fails, the mode is generate again.
C26_ModeConsumedOnce ==
    [][\A t \in Tids :
          /\ (thr[t].pc = "try" /\ thr'[t].pc # "try") => mode = thr[t].at_mode
          /\ (thr[t].pc = "try" /\ thr'[t].pc = "raised") => mode' = ""]_vars

-----------------------------------------------------------------------------
(* Properties of the autosave (Spec) *)

\* C21: with autosave on, a submit that succeeded ends with the record under
\* the save name of the story equal to the story, which is still the story
\* the submit worked on; a submit that fails writes no record; with autosave
\* off no step of a submit writes a record.
C21_AutosaveAfterTurn ==
    [][\A t \in Tids :
          /\ (thr[t].pc = "save" /\ thr'[t].pc # "save" /\ cfg.autosave) =>
                 /\ thr'[t].pc = "done"
                 /\ t \notin stale
                 /\ files'[get_save_name(adventure.name)] = to_dict(adventure)
          /\ (thr[t].pc # "save" /\ thr'[t].pc # thr[t].pc) => files' = files
          /\ (~cfg.autosave /\ thr'[t].pc # thr[t].pc) => files' = files]_vars

====
